---- MODULE Spec2Model ----
(***************************************************************************)
(* CoreLock: one periodic-task instance (lib/src/corelock.c), its worker   *)
(* threads running thread_fn, and a controller calling the lifecycle API.  *)
(*                                                                         *)
(* Time.  `now' is CLOCK_MONOTONIC in nanoseconds.  It advances only while *)
(* a worker is inside the task callback (by the duration the callback      *)
(* takes) or inside clock_nanosleep (to the absolute deadline, if that is  *)
(* still ahead).  Every other statement of thread_fn and every lifecycle   *)
(* call takes no time; they interleave freely.                             *)
(***************************************************************************)
EXTENDS Integers, Sequences, FiniteSets, TLC

\* ---------------------------------------------------------------- bounds
MaxThreads == 2     \* pthread_create calls that succeed, over the whole run
MaxIter == 2        \* task invocations started, over the whole run
MaxTicks == 3       \* iterations followed in the arithmetic of long periods

\* ------------------------------------------------------ program constants
NSEC_PER_SEC == 1000000000
NSEC_PER_USEC == 1000
CL_OK == 0
CL_ERR_START == 128
CL_ERR_BUSY == 129
CL_ERR_JOIN == 130
CL_ERR_TERM == 131
PTHREAD_CANCELED == -1

\* what a failed pthread_create may leave in inst->id: the handle of no thread
\* (the contents of the location are undefined after a failure)
StaleHandle == -1

CL_OVERRUN_BH_STOP == "CL_OVERRUN_BH_STOP"
CL_OVERRUN_BH_NOTIFY == "CL_OVERRUN_BH_NOTIFY"
CL_OVERRUN_BH_IGNORE == "CL_OVERRUN_BH_IGNORE"

\* ------------------------------------------------------------ test inputs
Threads == 1..MaxThreads
Periods == {1, 2}                    \* period_us
Policies == {CL_OVERRUN_BH_STOP, CL_OVERRUN_BH_NOTIFY, CL_OVERRUN_BH_IGNORE}
\* the clock when the instance is created, with stop_time and start_align:
\* a boot on a second boundary with the defaults of cl_make_def_attrs, and a
\* boot 500 ns before the next second (so that deadlines carry into tv_sec)
\* with a run of 2 us aligned to 1000 ns.  stop_time is a double in seconds
\* in the code; here it is kept in nanoseconds (2000 for 0.000002), -1 for
\* no limit
Boots == {[clk |-> 0, stop_time |-> -1, start_align |-> 0],
          [clk |-> 999999500, stop_time |-> 2000, start_align |-> 1000]}
\* how long one task invocation takes, in ns: within every period, and
\* longer than every period
Durations == {1000, 2500}
\* what the task callback returns
TaskResults == {0, 7}

\* ---------------------------------------------------------------- state
VARIABLES
  inst,      \* the cl_instanse record
  freed,     \* free(inst) has been called
  crashed,   \* the process died on an access to released memory
  now,       \* CLOCK_MONOTONIC, ns
  nthreads,  \* threads created so far by pthread_create
  th,        \* per thread: position in thread_fn and its locals
  cancel_req,\* per thread: pthread_cancel was requested
  reaped,    \* threads already consumed by pthread_join
  last,      \* the last lifecycle call and what it returned
  nstderr,   \* lines written to stderr
  hist,      \* per thread: what it has done so far (observation only)
  stop_called\* cl_inst_stop has been called (observation only)

vars == <<inst, freed, crashed, now, nthreads, th, cancel_req, reaped, last,
          nstderr, hist, stop_called>>

\* ------------------------------------------------------------- timespec
timespec(n) == [tv_sec |-> n \div NSEC_PER_SEC, tv_nsec |-> n % NSEC_PER_SEC]

total_ns(ts) == ts.tv_sec * NSEC_PER_SEC + ts.tv_nsec

clock_gettime(clk) == timespec(clk)

diff_nsecs(newer, older) ==
  LET diff_sec == newer.tv_sec - older.tv_sec
      diff_nsec == newer.tv_nsec - older.tv_nsec
  IN  IF diff_nsec < 0
        THEN ((diff_sec - 1) * NSEC_PER_SEC) + (diff_nsec + NSEC_PER_SEC)
        ELSE (diff_sec * NSEC_PER_SEC) + diff_nsec

\* mutant: at most one second is carried out of tv_nsec
advance_tick_onecarry(next_tick, periond_ns) ==
  LET nsec == next_tick.tv_nsec + periond_ns
  IN  IF nsec >= NSEC_PER_SEC
        THEN [tv_sec |-> next_tick.tv_sec + 1, tv_nsec |-> nsec - NSEC_PER_SEC]
        ELSE [tv_sec |-> next_tick.tv_sec, tv_nsec |-> nsec]

\* thread_fn, the three statements that advance the deadline by one period
advance_tick(next_tick, periond_ns) ==
  LET nsec == next_tick.tv_nsec + periond_ns
  IN  [tv_sec |-> next_tick.tv_sec + (nsec \div NSEC_PER_SEC),
       tv_nsec |-> nsec % NSEC_PER_SEC]

\* clock_nanosleep(CLOCK_MONOTONIC, TIMER_ABSTIME, deadline): the clock when
\* it returns
clock_nanosleep(clk, deadline) ==
  IF total_ns(deadline) > clk THEN total_ns(deadline) ELSE clk

\* ------------------------------------------------------ overrun policies
\* each takes and returns the pair [inst, err]: the instance and the number
\* of lines on stderr
overrun_handler_notify(s) == [s EXCEPT !.err = @ + 1]

\* mutant: the Stop policy reports but forgets to request the stop
overrun_handler_stop_noflag(s) ==
  LET n == overrun_handler_notify(s)
  IN  [n EXCEPT !.err = @ + 1]

overrun_handler_stop(s) ==
  LET n == overrun_handler_notify(s)
  IN  [n EXCEPT !.err = @ + 1, !.inst.stop_flag = 1]

overrun_handler_ignore(s) == s

call_overrun_handler(s) ==
  CASE s.inst.overrun_handler = "overrun_handler_notify" -> overrun_handler_notify(s)
    [] s.inst.overrun_handler = "overrun_handler_stop" -> overrun_handler_stop(s)
    [] s.inst.overrun_handler = "overrun_handler_ignore" -> overrun_handler_ignore(s)

\* ----------------------------------------------------------- construction
\* mutant: the Ignore case of the switch falls through into the Stop case
bind_overrun_handler_nobreak(or_bh) ==
  CASE or_bh = CL_OVERRUN_BH_NOTIFY -> "overrun_handler_notify"
    [] or_bh = CL_OVERRUN_BH_IGNORE -> "overrun_handler_stop"
    [] or_bh = CL_OVERRUN_BH_STOP -> "overrun_handler_stop"

bind_overrun_handler(or_bh) ==
  CASE or_bh = CL_OVERRUN_BH_NOTIFY -> "overrun_handler_notify"
    [] or_bh = CL_OVERRUN_BH_IGNORE -> "overrun_handler_ignore"
    [] or_bh = CL_OVERRUN_BH_STOP -> "overrun_handler_stop"

cl_inst_create(attrs) ==
  [attrs |-> attrs,
   stop_flag |-> 0,
   is_joined |-> 0,
   is_finished |-> 0,
   id |-> 0,
   start_time |-> timespec(0),
   overrun_handler |-> bind_overrun_handler(attrs.or_bh)]

make_attrs(p, b, stop_time, start_align) ==
  [period_us |-> p, or_bh |-> b, stop_time |-> stop_time,
   start_align |-> start_align]

\* mutant: res is left uninitialised
ThreadInit_uninit ==
  [pc |-> "none", periond_ns |-> 0, next_tick |-> timespec(0),
   curr_time |-> timespec(0), res |-> 5]

ThreadInit ==
  [pc |-> "none", periond_ns |-> 0, next_tick |-> timespec(0),
   curr_time |-> timespec(0), res |-> 0]

HistInit ==
  [iter |-> 0, inv_time |-> 0, overran |-> FALSE, task_rv |-> 0, after_stop |-> 0]

Init ==
  /\ \E p \in Periods, b \in Policies, boot \in Boots :
       /\ inst = cl_inst_create(make_attrs(p, b, boot.stop_time, boot.start_align))
       /\ now = boot.clk
  /\ freed = FALSE
  /\ crashed = FALSE
  /\ nthreads = 0
  /\ th = [t \in Threads |-> ThreadInit]
  /\ cancel_req = [t \in Threads |-> FALSE]
  /\ reaped = {}
  /\ last = [op |-> "create", status |-> CL_OK, has_ret |-> FALSE, ret |-> 0, tid |-> 0]
  /\ nstderr = 0
  /\ hist = [t \in Threads |-> HistInit]
  /\ stop_called = FALSE

\* ------------------------------------------------------------ thread_fn
Alive == ~crashed

\* what a worker reads from inst->stop_flag: the flag, or anything once the
\* instance has been released
load_stop_flag == IF freed THEN {0, 1} ELSE {inst.stop_flag}

\* a store of the worker into the instance: lost once it has been released
store(new) == IF freed THEN inst ELSE new

SetTh(t, r) == [th EXCEPT ![t] = r]

\* size_t periond_ns = period_us * 1000; clock_gettime(&inst->start_time)
Start(t) ==
  /\ Alive /\ th[t].pc = "start"
  /\ th' = SetTh(t, [th[t] EXCEPT !.pc = "init",
                        !.periond_ns = inst.attrs.period_us * NSEC_PER_USEC])
  /\ inst' = store([inst EXCEPT !.start_time = clock_gettime(now)])
  /\ UNCHANGED <<freed, crashed, now, nthreads, cancel_req, reaped, last,
                 nstderr, hist, stop_called>>

\* next_tick = inst->start_time
InitTick(t) ==
  /\ Alive /\ th[t].pc = "init"
  /\ th' = SetTh(t, [th[t] EXCEPT !.pc = "loop", !.next_tick = inst.start_time])
  /\ UNCHANGED <<inst, freed, crashed, now, nthreads, cancel_req, reaped,
                 last, nstderr, hist, stop_called>>

RECURSIVE SumIter(_)
SumIter(T) ==
  IF T = {} THEN 0
  ELSE LET t == CHOOSE x \in T : TRUE IN hist[t].iter + SumIter(T \ {t})

\* task invocations started so far by all workers
TotalIter == SumIter(Threads)

\* mutant: the loop condition tests the wrong flag
LoopCheck_wrongflag(t) ==
  /\ Alive /\ th[t].pc = "loop"
  /\ IF inst.is_joined # 0
       THEN th' = SetTh(t, [th[t] EXCEPT !.pc = "exit"])
       ELSE /\ TotalIter < MaxIter
            /\ th' = SetTh(t, [th[t] EXCEPT !.pc = "call"])
  /\ UNCHANGED <<inst, freed, crashed, now, nthreads, cancel_req, reaped,
                 last, nstderr, hist, stop_called>>

\* while (!atomic_load(&inst->stop_flag)); once MaxIter invocations have
\* been started a worker goes no further unless it is told to stop
\* mutant: a do-while loop, the first iteration runs before any stop check
LoopCheck_dowhile(t) ==
  /\ Alive /\ th[t].pc = "loop"
  /\ \E v \in load_stop_flag :
       IF v # 0 /\ hist[t].iter > 0
         THEN th' = SetTh(t, [th[t] EXCEPT !.pc = "exit"])
         ELSE /\ TotalIter < MaxIter
              /\ th' = SetTh(t, [th[t] EXCEPT !.pc = "call"])
  /\ UNCHANGED <<inst, freed, crashed, now, nthreads, cancel_req, reaped,
                 last, nstderr, hist, stop_called>>

LoopCheck(t) ==
  /\ Alive /\ th[t].pc = "loop"
  /\ \E v \in load_stop_flag :
       IF v # 0
         THEN th' = SetTh(t, [th[t] EXCEPT !.pc = "exit"])
         ELSE /\ TotalIter < MaxIter
              /\ th' = SetTh(t, [th[t] EXCEPT !.pc = "call"])
  /\ UNCHANGED <<inst, freed, crashed, now, nthreads, cancel_req, reaped,
                 last, nstderr, hist, stop_called>>

\* the deadline moves on by one period, then the task is entered
CallTask(t) ==
  /\ Alive /\ th[t].pc = "call"
  /\ th' = SetTh(t, [th[t] EXCEPT !.pc = "task",
                        !.next_tick = advance_tick(@, th[t].periond_ns)])
  /\ hist' = [hist EXCEPT ![t].iter = @ + 1, ![t].inv_time = now,
                          ![t].after_stop = IF ~freed /\ inst.stop_flag = 1
                                              THEN @ + 1 ELSE @]
  /\ UNCHANGED <<inst, freed, crashed, now, nthreads, cancel_req, reaped,
                 last, nstderr, stop_called>>

\* mutant: a non-zero result does not leave the loop
TaskReturn_nogoto(t) ==
  /\ Alive /\ th[t].pc = "task"
  /\ \E d \in Durations, r \in TaskResults :
       /\ now' = now + d
       /\ th' = SetTh(t, [th[t] EXCEPT !.res = r, !.pc = "gettime"])
       /\ hist' = [hist EXCEPT ![t].task_rv = r]
  /\ UNCHANGED <<inst, freed, crashed, nthreads, cancel_req, reaped, last,
                 nstderr, stop_called>>

\* res = task(arg) returns r after d ns; if (res) goto fn_out
TaskReturn(t) ==
  /\ Alive /\ th[t].pc = "task"
  /\ \E d \in Durations, r \in TaskResults :
       /\ now' = now + d
       /\ th' = SetTh(t, [th[t] EXCEPT !.res = r,
                             !.pc = IF r # 0 THEN "exit" ELSE "gettime"])
       /\ hist' = [hist EXCEPT ![t].task_rv = r]
  /\ UNCHANGED <<inst, freed, crashed, nthreads, cancel_req, reaped, last,
                 nstderr, stop_called>>

\* mutant: the returned value is tested only after the overrun check
GetTime_anyresult(t) ==
  /\ Alive /\ th[t].pc \in {"gettime", "exit"}
  /\ th[t].pc = "exit" => th[t].res # 0 /\ now > total_ns(th[t].next_tick)
  /\ LET curr == clock_gettime(now)
     IN  th' = SetTh(t, [th[t] EXCEPT !.curr_time = curr,
                            !.pc = IF diff_nsecs(curr, th[t].next_tick) > 0
                                     THEN "overrun" ELSE "sleep"])
  /\ UNCHANGED <<inst, freed, crashed, now, nthreads, cancel_req, reaped,
                 last, nstderr, hist, stop_called>>

\* mutant: a task that ends exactly on the deadline counts as an overrun
GetTime_onedge(t) ==
  /\ Alive /\ th[t].pc = "gettime"
  /\ LET curr == clock_gettime(now)
     IN  th' = SetTh(t, [th[t] EXCEPT !.curr_time = curr,
                            !.pc = IF diff_nsecs(curr, th[t].next_tick) >= 0
                                     THEN "overrun" ELSE "sleep"])
  /\ UNCHANGED <<inst, freed, crashed, now, nthreads, cancel_req, reaped,
                 last, nstderr, hist, stop_called>>

\* clock_gettime(&curr_time); if (diff_nsecs(&curr_time, &next_tick) > 0)
GetTime(t) ==
  /\ Alive /\ th[t].pc = "gettime"
  /\ LET curr == clock_gettime(now)
     IN  th' = SetTh(t, [th[t] EXCEPT !.curr_time = curr,
                            !.pc = IF diff_nsecs(curr, th[t].next_tick) > 0
                                     THEN "overrun" ELSE "sleep"])
  /\ UNCHANGED <<inst, freed, crashed, now, nthreads, cancel_req, reaped,
                 last, nstderr, hist, stop_called>>

\* inst->overrun_handler(inst, &curr_time, &next_tick); continue
Overrun(t) ==
  /\ Alive /\ th[t].pc = "overrun"
  /\ LET s == call_overrun_handler([inst |-> inst, err |-> nstderr])
     IN  /\ inst' = store(s.inst)
         /\ nstderr' = s.err
  /\ th' = SetTh(t, [th[t] EXCEPT !.pc = "loop"])
  /\ hist' = [hist EXCEPT ![t].overran = TRUE]
  /\ UNCHANGED <<freed, crashed, now, nthreads, cancel_req, reaped, last,
                 stop_called>>

\* mutant: a relative sleep of one period instead of the absolute deadline
Sleep_relative(t) ==
  /\ Alive /\ th[t].pc = "sleep"
  /\ ~cancel_req[t]
  /\ now' = now + th[t].periond_ns
  /\ th' = SetTh(t, [th[t] EXCEPT !.pc = "loop"])
  /\ UNCHANGED <<inst, freed, crashed, nthreads, cancel_req, reaped, last,
                 nstderr, hist, stop_called>>

\* clock_nanosleep(CLOCK_MONOTONIC, TIMER_ABSTIME, &next_tick, NULL); a
\* pending cancellation request is acted on here instead (Cancelled)
Sleep(t) ==
  /\ Alive /\ th[t].pc = "sleep"
  /\ ~cancel_req[t]
  /\ now' = clock_nanosleep(now, th[t].next_tick)
  /\ th' = SetTh(t, [th[t] EXCEPT !.pc = "loop"])
  /\ UNCHANGED <<inst, freed, crashed, nthreads, cancel_req, reaped, last,
                 nstderr, hist, stop_called>>

\* fn_out: atomic_store(&inst->is_finished, 1)
Exit(t) ==
  /\ Alive /\ th[t].pc = "exit"
  /\ inst' = store([inst EXCEPT !.is_finished = 1])
  /\ th' = SetTh(t, [th[t] EXCEPT !.pc = "ret"])
  /\ UNCHANGED <<freed, crashed, now, nthreads, cancel_req, reaped, last,
                 nstderr, hist, stop_called>>

\* the top of one loop iteration of a worker with a period of a second or
\* more: the stop check and the advance of the deadline. These workers are
\* followed in their deadline only (their clock values lie beyond the range
\* of now), so the task, the clock and the sleep are left out.
Tick(t) ==
  /\ Alive /\ th[t].pc = "tick"
  /\ inst.stop_flag = 0
  /\ hist[t].iter < MaxTicks
  /\ th' = SetTh(t, [th[t] EXCEPT
                        !.next_tick = advance_tick(@, th[t].periond_ns)])
  /\ hist' = [hist EXCEPT ![t].iter = @ + 1]
  /\ UNCHANGED <<inst, freed, crashed, now, nthreads, cancel_req, reaped,
                 last, nstderr, stop_called>>

\* return res: the thread terminates
Return(t) ==
  /\ Alive /\ th[t].pc = "ret"
  /\ th' = SetTh(t, [th[t] EXCEPT !.pc = "done"])
  /\ UNCHANGED <<inst, freed, crashed, now, nthreads, cancel_req, reaped,
                 last, nstderr, hist, stop_called>>

\* the cancellation points of thread_fn: clock_nanosleep, the fprintf of the
\* Notify and Stop handlers, and whatever the task callback calls
AtCancellationPoint(t) ==
  \/ th[t].pc \in {"task", "sleep"}
  \/ th[t].pc = "overrun" /\ inst.overrun_handler # "overrun_handler_ignore"

\* the worker acts on a pending pthread_cancel and terminates
Cancelled(t) ==
  /\ Alive /\ cancel_req[t] /\ AtCancellationPoint(t)
  /\ th' = SetTh(t, [th[t] EXCEPT !.pc = "cancelled"])
  /\ UNCHANGED <<inst, freed, crashed, now, nthreads, cancel_req, reaped,
                 last, nstderr, hist, stop_called>>

\* a worker statement that touches the instance after free(inst) may also
\* bring the process down
UseAfterFree(t) ==
  /\ Alive /\ freed
  /\ th[t].pc \in {"start", "init", "loop", "call", "overrun", "exit"}
  /\ crashed' = TRUE
  /\ UNCHANGED <<inst, freed, now, nthreads, th, cancel_req, reaped, last,
                 nstderr, hist, stop_called>>

Terminated(t) == th[t].pc \in {"done", "cancelled"}

Running(t) == th[t].pc \notin {"none", "done", "cancelled"}

\* the value pthread_join hands back for thread t
thread_retval(t) == IF th[t].pc = "cancelled" THEN PTHREAD_CANCELED ELSE th[t].res

WorkerStep(t) ==
  \/ Start(t) \/ InitTick(t) \/ LoopCheck(t) \/ CallTask(t) \/ TaskReturn(t)
  \/ GetTime(t) \/ Overrun(t) \/ Sleep(t) \/ Exit(t) \/ Return(t)
  \/ Cancelled(t)

\* -------------------------------------------------------- lifecycle API
\* the controller calls the API on a live handle only: a call on a released
\* instance is outside the contract
Callable == Alive /\ ~freed

Returned(op, status) ==
  [op |-> op, status |-> status, has_ret |-> FALSE, ret |-> 0, tid |-> 0]

\* pthread_create(&inst->id, &inst->th_attr, thread_fn, inst): it may refuse
\* (no privilege for the scheduling class, no resources), else a new thread
\* starts thread_fn and inst->id names it
\* mutant: run clears a pending stop request before it starts the worker
cl_inst_run_rearm ==
  /\ Callable
  /\ \/ /\ nthreads < MaxThreads
        /\ nthreads' = nthreads + 1
        /\ inst' = [inst EXCEPT !.id = nthreads + 1, !.stop_flag = 0]
        /\ th' = SetTh(nthreads + 1, [ThreadInit EXCEPT !.pc = "start"])
        /\ last' = Returned("run", CL_OK)
     \/ /\ last' = Returned("run", CL_ERR_START)
        /\ \E h \in {inst.id, StaleHandle} : inst' = [inst EXCEPT !.id = h]
        /\ UNCHANGED <<nthreads, th>>
  /\ UNCHANGED <<freed, crashed, now, cancel_req, reaped, nstderr, hist,
                 stop_called>>

cl_inst_run ==
  /\ Callable
  /\ \/ /\ nthreads < MaxThreads
        /\ nthreads' = nthreads + 1
        /\ inst' = [inst EXCEPT !.id = nthreads + 1]
        /\ th' = SetTh(nthreads + 1, [ThreadInit EXCEPT !.pc = "start"])
        /\ last' = Returned("run", CL_OK)
     \/ /\ last' = Returned("run", CL_ERR_START)
        /\ \E h \in {inst.id, StaleHandle} : inst' = [inst EXCEPT !.id = h]
        /\ UNCHANGED <<nthreads, th>>
  /\ UNCHANGED <<freed, crashed, now, cancel_req, reaped, nstderr, hist,
                 stop_called>>

\* mutant: stop stores into the finished flag
cl_inst_stop_marks ==
  /\ Callable
  /\ inst' = [inst EXCEPT !.is_finished = 1]
  /\ stop_called' = TRUE
  /\ last' = Returned("stop", CL_OK)
  /\ UNCHANGED <<freed, crashed, now, nthreads, th, cancel_req, reaped,
                 nstderr, hist>>

cl_inst_stop ==
  /\ Callable
  /\ inst' = [inst EXCEPT !.stop_flag = 1]
  /\ stop_called' = TRUE
  /\ last' = Returned("stop", CL_OK)
  /\ UNCHANGED <<freed, crashed, now, nthreads, th, cancel_req, reaped,
                 nstderr, hist>>

\* atomic_load(&inst->is_finished)
cl_inst_is_stopped == inst.is_finished # 0

\* pthread_join(inst->id, &th_ret) on a handle that names no joinable thread
\* (none created, or already joined) is undefined: it returns an error or
\* brings the process down, and on the handle a failed pthread_create left
\* behind it may also report success (glibc does); otherwise it returns once
\* the thread has terminated.  want_ret: the caller passed a non-NULL ret
cl_inst_join ==
  /\ Callable
  /\ \/ /\ inst.id \notin Threads \/ inst.id \in reaped
        /\ \/ last' = Returned("join", CL_ERR_JOIN) /\ UNCHANGED crashed
           \/ crashed' = TRUE /\ UNCHANGED last
        /\ UNCHANGED <<inst, reaped>>
     \/ /\ inst.id = StaleHandle
        /\ last' = [op |-> "join", status |-> CL_OK, has_ret |-> FALSE,
                    ret |-> 0, tid |-> inst.id]
        /\ inst' = [inst EXCEPT !.is_joined = 1]
        /\ UNCHANGED <<crashed, reaped>>
     \/ /\ inst.id \in Threads /\ inst.id \notin reaped
        /\ Terminated(inst.id)
        /\ \E want_ret \in BOOLEAN :
             last' = [op |-> "join", status |-> CL_OK, has_ret |-> want_ret,
                      ret |-> IF want_ret THEN thread_retval(inst.id) ELSE 0,
                      tid |-> inst.id]
        /\ reaped' = reaped \cup {inst.id}
        /\ inst' = [inst EXCEPT !.is_joined = 1]
        /\ UNCHANGED crashed
  /\ UNCHANGED <<freed, now, nthreads, th, cancel_req, nstderr, hist,
                 stop_called>>

\* pthread_cancel(inst->id) on a handle that names no thread is undefined
\* in the same way
cl_inst_term ==
  /\ Callable
  /\ \/ /\ inst.id \notin Threads \/ inst.id \in reaped
        /\ \/ last' = Returned("term", CL_ERR_TERM) /\ UNCHANGED crashed
           \/ crashed' = TRUE /\ UNCHANGED last
        /\ UNCHANGED cancel_req
     \/ /\ inst.id = StaleHandle
        /\ last' = Returned("term", CL_OK)
        /\ UNCHANGED <<crashed, cancel_req>>
     \/ /\ inst.id \in Threads /\ inst.id \notin reaped
        /\ cancel_req' = [cancel_req EXCEPT ![inst.id] = TRUE]
        /\ last' = Returned("term", CL_OK)
        /\ UNCHANGED crashed
  /\ UNCHANGED <<inst, freed, now, nthreads, th, reaped, nstderr, hist,
                 stop_called>>

\* mutant: destroy without the is_joined guard
cl_inst_destroy_unguarded ==
  /\ Callable
  /\ freed' = TRUE
  /\ last' = Returned("destroy", CL_OK)
  /\ UNCHANGED <<inst, crashed, now, nthreads, th, cancel_req, reaped,
                 nstderr, hist, stop_called>>

cl_inst_destroy ==
  /\ Callable
  /\ IF inst.is_joined = 0
       THEN /\ last' = Returned("destroy", CL_ERR_BUSY)
            /\ UNCHANGED freed
       ELSE /\ freed' = TRUE
            /\ last' = Returned("destroy", CL_OK)
  /\ UNCHANGED <<inst, crashed, now, nthreads, th, cancel_req, reaped,
                 nstderr, hist, stop_called>>

\* ------------------------------------------------------------ the system
Worker == \E t \in Threads : WorkerStep(t)

Released == \E t \in Threads : UseAfterFree(t)

\* the documented use: run until pthread_create has written the handle, not
\* again
RunOnce == inst.id = 0 /\ cl_inst_run

\* the misuse: run on an instance whose handle names a worker already (no
\* further calls once MaxThreads workers exist)
Rerun == inst.id \in Threads /\ nthreads < MaxThreads /\ cl_inst_run

Next ==
  \/ RunOnce
  \/ cl_inst_stop
  \/ cl_inst_join
  \/ cl_inst_term
  \/ cl_inst_destroy
  \/ Worker

Spec == Init /\ [][Next]_vars

NextRerun ==
  \/ Next
  \/ Rerun
  \/ Released

\* the configuration of examples/basic_usage.c: cl_make_def_attrs with the
\* Notify policy
InitRerun ==
  /\ Init
  /\ inst.attrs = make_attrs(1, CL_OVERRUN_BH_NOTIFY, -1, 0)
  /\ now = 0

SpecRerun == InitRerun /\ [][NextRerun]_vars

\* the scheduler runs every runnable worker, and every task invocation and
\* every sleep returns
FairSpec == Spec /\ \A t \in Threads : WF_vars(WorkerStep(t))

\* periods of a second or more, in microseconds
LongPeriods == {1000000, 1100000, 1147000}

\* start timestamps of the workers with long periods
TickStarts ==
  {[tv_sec |-> sec, tv_nsec |-> nsec] :
     sec \in {0, 5}, nsec \in {0, 1, 500000000, 999999500, 999999999}}

\* a worker with a long period that has run thread_fn up to the loop
InitTicks ==
  /\ \E p \in LongPeriods, start \in TickStarts :
       /\ inst = [cl_inst_create(make_attrs(p, CL_OVERRUN_BH_NOTIFY, -1, 0))
                   EXCEPT !.id = 1, !.start_time = start]
       /\ th = [t \in Threads |->
                  IF t = 1
                    THEN [ThreadInit EXCEPT !.pc = "tick",
                                            !.periond_ns = p * NSEC_PER_USEC,
                                            !.next_tick = start]
                    ELSE ThreadInit]
  /\ now = 0
  /\ freed = FALSE
  /\ crashed = FALSE
  /\ nthreads = 1
  /\ cancel_req = [t \in Threads |-> FALSE]
  /\ reaped = {}
  /\ last = Returned("run", CL_OK)
  /\ nstderr = 0
  /\ hist = [t \in Threads |-> HistInit]
  /\ stop_called = FALSE

Ticks == \E t \in Threads : Tick(t)

NextDeadline ==
  \/ Next
  \/ Ticks

\* the system, together with the deadline arithmetic of long periods
DeadlineSpec == (Init \/ InitTicks) /\ [][NextDeadline]_vars

TypeOK ==
  /\ inst.stop_flag \in {0, 1}
  /\ inst.is_joined \in {0, 1}
  /\ inst.is_finished \in {0, 1}
  /\ inst.id \in (0..MaxThreads) \cup {StaleHandle}
  /\ nthreads \in 0..MaxThreads

\* ================================================================ claims
JoinedOk(t) ==
  last.op = "join" /\ last.status = CL_OK /\ last.tid = t /\ last.has_ret

period_ns == inst.attrs.period_us * NSEC_PER_USEC

\* C1: a destroy call made while joined is false returns CL_ERR_BUSY, does
\* not release the instance and changes no field of it; a destroy call made
\* once a join has succeeded returns CL_OK and releases the instance.
DestroyContract ==
  [][(last' # last /\ last'.op = "destroy") =>
       /\ inst.is_joined = 0 =>
            last'.status = CL_ERR_BUSY /\ ~freed' /\ inst' = inst
       /\ reaped # {} => last'.status = CL_OK /\ freed']_vars

\* destroy was refused while the worker was still in its loop
DestroyRefusedWhileRunning ==
  /\ last.op = "destroy" /\ last.status = CL_ERR_BUSY
  /\ \E t \in Threads : th[t].pc = "task"
  /\ ~freed

\* C2: once stop has been requested a worker starts at most one more task
\* invocation, and a worker that was running when the request was made
\* leaves the loop and is_finished becomes true (unless terminate cuts the
\* worker short).
StopBoundsWork ==
  /\ [](\A t \in Threads : hist[t].after_stop <= 1)
  /\ \A t \in Threads :
       (inst.stop_flag = 1 /\ Running(t)) ~> (cl_inst_is_stopped \/ cancel_req[t])

\* stop came between the loop check and the task call: one more invocation
\* was started, and the worker has finished
StoppedAfterOneMore ==
  \E t \in Threads :
    stop_called /\ hist[t].after_stop = 1 /\ cl_inst_is_stopped /\ ~cancel_req[t]

\* C3: a worker whose task has returned a non-zero value v is at fn_out or
\* beyond (no further invocation, no sleep), finished is set once it has
\* passed fn_out, and a successful join of it reports v.
NonZeroEndsLoop ==
  \A t \in Threads :
    hist[t].task_rv # 0 =>
      /\ th[t].pc \in {"exit", "ret", "done"}
      /\ th[t].pc \in {"ret", "done"} => cl_inst_is_stopped
      /\ JoinedOk(t) => last.ret = hist[t].task_rv

\* join reported the task's non-zero value although stop had been requested
JoinReportsTaskValue ==
  \E t \in Threads :
    /\ JoinedOk(t) /\ hist[t].task_rv = 7 /\ last.ret = 7
    /\ stop_called /\ hist[t].iter = 2

\* C4: under the Stop policy a worker whose overrun handler has run has set
\* stop_flag, starts no further invocation (it is at the loop check or
\* beyond), and finished becomes true.
StopPolicyEndsLoop ==
  /\ [](\A t \in Threads :
          (inst.attrs.or_bh = CL_OVERRUN_BH_STOP /\ hist[t].overran) =>
            /\ inst.stop_flag = 1
            /\ th[t].pc \in {"loop", "exit", "ret", "done"})
  /\ \A t \in Threads :
       (inst.attrs.or_bh = CL_OVERRUN_BH_STOP /\ hist[t].overran)
          ~> cl_inst_is_stopped

\* an overrun under Stop ended the loop and nobody called stop
OverrunStoppedWorker ==
  \E t \in Threads :
    /\ inst.attrs.or_bh = CL_OVERRUN_BH_STOP /\ hist[t].overran
    /\ ~stop_called /\ inst.stop_flag = 1 /\ cl_inst_is_stopped

\* C5: under Ignore and Notify the overrun handler leaves stop_flag,
\* is_finished and is_joined as they were (Notify writes one line to stderr,
\* Ignore none) and the worker is back at the loop check, which it leaves
\* for fn_out only when stop_flag is set.
LenientPoliciesKeepRunning ==
  [][\A t \in Threads :
       /\ (/\ th[t].pc = "overrun" /\ th'[t].pc = "loop"
           /\ inst.attrs.or_bh \in {CL_OVERRUN_BH_IGNORE, CL_OVERRUN_BH_NOTIFY}) =>
            /\ inst'.stop_flag = inst.stop_flag
            /\ inst'.is_finished = inst.is_finished
            /\ inst'.is_joined = inst.is_joined
            /\ nstderr' = nstderr +
                 (IF inst.attrs.or_bh = CL_OVERRUN_BH_NOTIFY THEN 1 ELSE 0)
       /\ (th[t].pc = "loop" /\ th'[t].pc = "exit") => inst.stop_flag = 1]_vars

\* after an overrun under Ignore or Notify the next invocation is running
NextInvocationAfterOverrun ==
  \E t \in Threads :
    /\ inst.attrs.or_bh \in {CL_OVERRUN_BH_IGNORE, CL_OVERRUN_BH_NOTIFY}
    /\ hist[t].overran /\ th[t].pc = "task" /\ hist[t].iter = 2
    /\ inst.stop_flag = 0 /\ ~cl_inst_is_stopped

\* C6: a worker that left the loop on a stop request (its task never
\* returned non-zero) hands join a zero result, and once stop is requested
\* a running worker terminates, so that join returns.
StopExitReportsZero ==
  /\ [](\A t \in Threads :
          (JoinedOk(t) /\ th[t].pc = "done" /\ hist[t].task_rv = 0) => last.ret = 0)
  /\ \A t \in Threads : (inst.stop_flag = 1 /\ Running(t)) ~> Terminated(t)

\* run, some invocations returning zero, stop, join: Ok and a zero result
JoinAfterStopReportsZero ==
  \E t \in Threads :
    /\ JoinedOk(t) /\ th[t].pc = "done" /\ last.ret = 0
    /\ stop_called /\ hist[t].iter > 0 /\ hist[t].task_rv = 0

\* C7: as long as the worker has not overrun, its latest task invocation,
\* the k-th (k = iter - 1), started at start_time + k * period.
FixedPhase ==
  \A t \in Threads :
    (hist[t].iter > 0 /\ ~hist[t].overran) =>
      hist[t].inv_time = total_ns(inst.start_time) + (hist[t].iter - 1) * period_ns

\* the second invocation has started one period after the first, the task
\* having finished early and the worker having slept
SecondInvocationOnePeriodLater ==
  \E t \in Threads :
    /\ hist[t].iter = 2 /\ ~hist[t].overran /\ th[t].pc = "task"
    /\ hist[t].inv_time = total_ns(inst.start_time) + period_ns
    /\ period_ns > 1000

\* C8: at most one worker thread is ever created for the instance, whatever
\* the sequence of lifecycle calls.
OneWorkerOnly == nthreads <= 1

\* C9: with a stop-after duration D >= 0 no task invocation is started once
\* D has elapsed since the start timestamp (the worker leaves the loop).
StopAfterElapsed ==
  \A t \in Threads :
    (inst.attrs.stop_time >= 0 /\ th[t].pc = "task") =>
      hist[t].inv_time - total_ns(inst.start_time) < inst.attrs.stop_time

\* C10: with a start alignment A > 0 the start timestamp the worker has
\* recorded is a multiple of A.
StartAligned ==
  (inst.attrs.start_align > 0 /\ \E t \in Threads : th[t].pc \notin {"none", "start"})
    => total_ns(inst.start_time) % inst.attrs.start_align = 0

\* C11: is_finished changes only from 0 to 1, only in the worker's step at
\* fn_out; while it is 1 every worker is past fn_out, and the only worker
\* step left (the return) changes neither the instance, nor stderr, nor the
\* count of invocations.
FinishedOnceByWorker ==
  /\ [](cl_inst_is_stopped =>
          \A t \in Threads : th[t].pc \in {"none", "ret", "done"})
  /\ [][/\ inst'.is_finished # inst.is_finished =>
             /\ inst.is_finished = 0 /\ inst'.is_finished = 1
             /\ \E t \in Threads : th[t].pc = "exit" /\ th'[t].pc = "ret"
        /\ (cl_inst_is_stopped /\ th' # th) =>
             /\ inst' = inst /\ nstderr' = nstderr /\ hist' = hist
             /\ \A t \in Threads :
                  th'[t] # th[t] => th[t].pc = "ret" /\ th'[t].pc = "done"]_vars

\* the worker has finished after two invocations and returned; stop was
\* called afterwards
FinishedWorkerAtRest ==
  \E t \in Threads :
    /\ cl_inst_is_stopped /\ th[t].pc = "done" /\ hist[t].iter = 2
    /\ last.op = "stop" /\ hist[t].task_rv # 0

\* C12: stop_flag never goes from 1 back to 0, whatever operation runs (run,
\* join, terminate, a later iteration, a refused destroy), and it goes from 0
\* to 1 only in cl_inst_stop or in the overrun handler of the Stop policy.
StopRequestMonotonic ==
  [][/\ inst.stop_flag = 1 => inst'.stop_flag = 1
     /\ inst'.stop_flag # inst.stop_flag =>
          \/ last' # last /\ last'.op = "stop"
          \/ /\ inst.attrs.or_bh = CL_OVERRUN_BH_STOP
             /\ \E t \in Threads : th[t].pc = "overrun" /\ th'[t].pc # "overrun"]_vars

\* the Stop policy (not cl_inst_stop) requested the stop, and the request has
\* outlived a terminate call and a refused destroy
StopRequestSurvives ==
  /\ inst.stop_flag = 1 /\ ~stop_called
  /\ last.op = "destroy" /\ last.status = CL_ERR_BUSY
  /\ \E t \in Threads : cancel_req[t] /\ hist[t].overran

\* C13: under any interleaving of lifecycle calls with the worker, the
\* instance is never released while a worker thread that was created is still
\* running or has not been joined.
NoReleaseWhileWorkerLives ==
  freed => \A t \in Threads : th[t].pc # "none" => t \in reaped

\* C14: as long as terminate has not cancelled a worker, is_joined = 1 implies
\* is_finished = 1; and is_finished = 1 implies that run was called and
\* created a worker.
JoinedImpliesFinished ==
  /\ (\A t \in Threads : ~cancel_req[t]) =>
       (inst.is_joined = 1 => inst.is_finished = 1)
  /\ inst.is_finished = 1 => nthreads > 0 /\ inst.id # 0

\* C15: once thread_fn has copied the start timestamp, the deadline is the
\* start timestamp plus n periods, n the number of task invocations started
\* so far, with tv_nsec in [0, 10^9) and the seconds carried (also for periods
\* of a second or more), whether or not earlier iterations overran: no other
\* statement moves it.
DeadlineOnGrid ==
  \A t \in Threads :
    th[t].pc \notin {"none", "start", "init"} =>
      LET n == hist[t].iter
          psec == period_ns \div NSEC_PER_SEC
          pnsec == period_ns % NSEC_PER_SEC
          nsec == inst.start_time.tv_nsec + (n * pnsec)
      IN  /\ th[t].next_tick.tv_sec =
               inst.start_time.tv_sec + (n * psec) + (nsec \div NSEC_PER_SEC)
          /\ th[t].next_tick.tv_nsec = nsec % NSEC_PER_SEC
          /\ th[t].next_tick.tv_nsec \in 0..(NSEC_PER_SEC - 1)

\* two advances by 1.1 s from xx.9999995 s: one of them carried two seconds
TwoSecondsCarried ==
  \E t \in Threads :
    /\ hist[t].iter = 2 /\ th[t].periond_ns = 1100000000
    /\ inst.start_time.tv_nsec = 999999500
    /\ th[t].next_tick.tv_sec = inst.start_time.tv_sec + 3

\* the lines the bound policy writes to stderr in one invocation
policy_lines ==
  CASE inst.attrs.or_bh = CL_OVERRUN_BH_NOTIFY -> 1
    [] inst.attrs.or_bh = CL_OVERRUN_BH_STOP -> 2
    [] inst.attrs.or_bh = CL_OVERRUN_BH_IGNORE -> 0

\* C16: in an iteration whose task returned zero the worker goes to the
\* overrun policy (one invocation, no sleep, the clock untouched) exactly when
\* the clock read after the task is strictly later than the advanced deadline,
\* and otherwise sleeps until the deadline without invoking the policy; the
\* policy and the sleep are entered from nowhere else, and the worker waits
\* nowhere but in the task and in that sleep.
OverrunDispatch ==
  [][/\ \A t \in Threads :
          /\ (th[t].pc = "gettime" /\ th'[t].pc # "gettime") =>
               /\ hist[t].task_rv = 0
               /\ th'[t].pc = IF now > total_ns(th[t].next_tick)
                                THEN "overrun" ELSE "sleep"
          /\ (th'[t].pc \in {"overrun", "sleep"} /\ th'[t].pc # th[t].pc) =>
               th[t].pc = "gettime"
          /\ (th[t].pc = "overrun" /\ th'[t].pc # "overrun") =>
               /\ now' = now
               /\ th'[t].pc \in {"loop", "cancelled"}
               /\ th'[t].pc = "loop" => nstderr' = nstderr + policy_lines
          /\ (th[t].pc = "sleep" /\ th'[t].pc # "sleep") =>
               /\ th'[t].pc \in {"loop", "cancelled"}
               /\ nstderr' = nstderr /\ inst' = inst
               /\ th'[t].pc = "loop" =>
                    /\ now' >= now /\ now' >= total_ns(th[t].next_tick)
                    /\ now' \in {now, total_ns(th[t].next_tick)}
     /\ now' # now =>
          \E t \in Threads : th[t].pc \in {"task", "sleep"} /\ th'[t].pc # th[t].pc
     /\ nstderr' # nstderr =>
          \E t \in Threads : th[t].pc = "overrun" /\ th'[t].pc = "loop"]_vars

\* the task ended exactly on the deadline: no overrun, the worker is at the
\* sleep and the policy has not run
SleepOnTheEdge ==
  \E t \in Threads :
    /\ th[t].pc = "sleep" /\ now = total_ns(th[t].next_tick)
    /\ ~hist[t].overran /\ nstderr = 0

\* C17: a worker that terminate cancelled inside the loop never sets
\* is_finished: it stays cancelled and the flag stays 0, also after a join
\* succeeded; and is_joined = 1 with is_finished = 0 occurs only when the
\* joined worker was cancelled.
CancelledNeverFinished ==
  /\ [](\A t \in Threads : th[t].pc = "cancelled" => inst.is_finished = 0)
  /\ []((inst.is_joined = 1 /\ inst.is_finished = 0) =>
          \E t \in reaped : th[t].pc = "cancelled" /\ cancel_req[t])
  /\ [][\A t \in Threads :
          th[t].pc = "cancelled" => th'[t].pc = "cancelled"]_vars

\* worker t has not reached its first loop check and the stop is already
\* requested (as it is when stop was called before run)
StoppedAtBirth(t) ==
  /\ th[t].pc \in {"start", "init", "loop"} /\ hist[t].iter = 0
  /\ inst.stop_flag = 1

\* C18: a worker started when the stop has already been requested leaves the
\* loop at its first check: it never invokes the task, it sets is_finished
\* and returns, and a join on it succeeds with the value zero.
StopBeforeRun ==
  \A t \in Threads :
    /\ [](StoppedAtBirth(t) => [](hist[t].iter = 0 /\ th[t].res = 0))
    /\ StoppedAtBirth(t) ~>
         (th[t].pc = "done" /\ cl_inst_is_stopped /\ hist[t].iter = 0)
    /\ []((JoinedOk(t) /\ hist[t].iter = 0) =>
            last.ret = 0 /\ cl_inst_is_stopped /\ inst.is_joined = 1)

\* stop, then run (the latest call), and the worker has already returned
\* without a single invocation
BornStoppedWorkerDone ==
  \E t \in Threads :
    /\ stop_called /\ last.op = "run" /\ last.status = CL_OK
    /\ th[t].pc = "done" /\ hist[t].iter = 0 /\ cl_inst_is_stopped

\* C19: an iteration whose task returned non-zero goes straight to fn_out,
\* past the overrun check: from there on the worker writes nothing to stderr
\* and does not touch stop_flag, even when the deadline has passed. So after
\* such an exit stop_flag is 1 only if cl_inst_stop was called, stderr holds
\* only the lines of overruns of earlier iterations, and under the Stop
\* policy there was no earlier overrun either.
NoPolicyOnNonZero ==
  /\ [][\A t \in Threads :
          /\ (th[t].pc = "task" /\ hist'[t].task_rv # 0 /\ th'[t] # th[t]) =>
               th'[t].pc \in {"exit", "cancelled"}
          /\ (hist[t].task_rv # 0 /\ th'[t] # th[t]) =>
               /\ th'[t].pc \in {"ret", "done"}
               /\ nstderr' = nstderr
               /\ inst'.stop_flag = inst.stop_flag]_vars
  /\ [](\A t \in Threads :
          hist[t].task_rv # 0 =>
            /\ ~stop_called => inst.stop_flag = 0
            /\ ~hist[t].overran => nstderr = 0
            /\ inst.attrs.or_bh = CL_OVERRUN_BH_STOP => ~hist[t].overran)

\* under the Stop policy the task returned 7 after the deadline had passed:
\* the worker has returned, no stop is requested and stderr is empty
LateNonZeroExit ==
  \E t \in Threads :
    /\ inst.attrs.or_bh = CL_OVERRUN_BH_STOP
    /\ hist[t].task_rv = 7 /\ now > total_ns(th[t].next_tick)
    /\ th[t].pc = "done" /\ inst.stop_flag = 0 /\ nstderr = 0

\* C20: while no worker thread has been created (run not called, or run
\* returned CL_ERR_START) the instance is not released: is_joined stays 0 and
\* every destroy call returns CL_ERR_BUSY.
NeverStartedNeverReleased ==
  nthreads = 0 =>
    /\ inst.is_joined = 0
    /\ ~freed
    /\ last.op = "destroy" => last.status = CL_ERR_BUSY

====
